---------------------------- MODULE Spec2Model ----------------------------
(***************************************************************************)
(* Spectral index kernels and the spectral mixture analysis (SMA) solver   *)
(* of FORCE's higher-level time series module                              *)
(* (src/src/higher-level/index-hl.c).                                      *)
(*                                                                         *)
(* The element-wise kernels compute in C `float`.  Single precision is     *)
(* modelled bit-exactly: a float is a pair <<m, e>> standing for m * 2^e   *)
(* with 2^23 <= |m| < 2^24 (or <<0, 0>> for zero), and every operation     *)
(* rounds to nearest, ties to even, as the hardware does.  All integer     *)
(* intermediates stay below 2^31.                                          *)
(***************************************************************************)
EXTENDS Integers, Sequences, FiniteSets, TLC

(***************************************************************************)
(* Integer helpers                                                         *)
(***************************************************************************)
Abs(n) == IF n < 0 THEN -n ELSE n

Sgn(n) == IF n < 0 THEN -1 ELSE IF n = 0 THEN 0 ELSE 1

RECURSIVE BitLen(_)
BitLen(n) == IF n = 0 THEN 0 ELSE 1 + BitLen(n \div 2)

Two23 == 2^23

Two24 == 2^24

\* C integer division and casts truncate toward zero
TruncDiv(n, d) == Sgn(n) * Sgn(d) * (Abs(n) \div Abs(d))

(***************************************************************************)
(* IEEE-754 binary32                                                       *)
(***************************************************************************)
F32Zero == <<0, 0>>

\* results of a division by zero or of sqrt of a negative number
F32NaN == <<0, 999>>

F32PInf == <<1, 999>>

F32NInf == <<-1, 999>>

F32IsNaN(x) == x = F32NaN

F32IsInf(x) == x = F32PInf \/ x = F32NInf

F32IsFinite(x) == x[2] # 999

\* round the magnitude mag * 2^e (plus a non-zero tail below the last bit
\* when sticky) to 24 significant bits, nearest-even
F32Round(sign, mag, e, sticky) ==
  IF mag = 0 THEN F32Zero
  ELSE LET len == BitLen(mag) IN
       IF len <= 24 THEN <<sign * mag * 2^(24 - len), e - (24 - len)>>
       ELSE LET sh   == len - 24
                q    == mag \div 2^sh
                r    == mag % 2^sh
                half == 2^(sh - 1)
                up   == \/ r > half
                        \/ r = half /\ sticky
                        \/ r = half /\ ~sticky /\ q % 2 = 1
                q1   == IF up THEN q + 1 ELSE q
            IN IF q1 = Two24 THEN <<sign * Two23, e + sh + 1>>
                             ELSE <<sign * q1, e + sh>>

\* conversion int -> float (|n| < 2^31)
F32FromInt(n) == F32Round(Sgn(n), Abs(n), 0, FALSE)

F32Neg(x) == IF F32IsNaN(x) THEN x ELSE <<-x[1], x[2]>>

\* x + y, correctly rounded; six guard bits and a sticky bit
F32AddFinite(x, y) ==
  IF x[1] = 0 THEN y
  ELSE IF y[1] = 0 THEN x
  ELSE LET hi == IF x[2] >= y[2] THEN x ELSE y
           lo == IF x[2] >= y[2] THEN y ELSE x
           diff == hi[2] - lo[2]
       IN IF diff <= 6
          THEN LET s == hi[1] * 2^diff + lo[1]
               IN F32Round(Sgn(s), Abs(s), lo[2], FALSE)
          ELSE LET sh  == diff - 6
                   fl  == IF sh > 30 THEN (IF lo[1] < 0 THEN -1 ELSE 0)
                                     ELSE lo[1] \div 2^sh
                   st  == IF sh > 30 THEN TRUE ELSE lo[1] % 2^sh # 0
                   s   == hi[1] * 64 + fl
                   mag == IF s >= 0 THEN s ELSE IF st THEN -s - 1 ELSE -s
               IN F32Round(IF s >= 0 THEN 1 ELSE -1, mag, hi[2] - 6, st)

F32Add(x, y) ==
  IF F32IsNaN(x) \/ F32IsNaN(y) THEN F32NaN
  ELSE IF F32IsInf(x) /\ F32IsInf(y) THEN (IF x = y THEN x ELSE F32NaN)
  ELSE IF F32IsInf(x) THEN x
  ELSE IF F32IsInf(y) THEN y
  ELSE F32AddFinite(x, y)

F32Sub(x, y) == F32Add(x, F32Neg(y))

\* x * y, correctly rounded: the 48-bit product of the mantissas is formed
\* from 12-bit halves as H * 2^24 + L
F32MulFinite(x, y) ==
  IF x[1] = 0 \/ y[1] = 0 THEN F32Zero
  ELSE LET a  == Abs(x[1])
           b  == Abs(y[1])
           a1 == a \div 4096
           a0 == a % 4096
           b1 == b \div 4096
           b0 == b % 4096
           mid == a1 * b0 + a0 * b1
           low == (mid % 4096) * 4096 + a0 * b0
           H  == a1 * b1 + mid \div 4096 + low \div Two24
           L  == low % Two24
           sg == Sgn(x[1]) * Sgn(y[1])
           big == H >= Two23
           q   == IF big THEN H ELSE 2 * H + L \div Two23
           r   == IF big THEN L ELSE L % Two23
           half == IF big THEN Two23 ELSE 2^22
           ex  == x[2] + y[2] + (IF big THEN 24 ELSE 23)
           up  == r > half \/ (r = half /\ q % 2 = 1)
           q1  == IF up THEN q + 1 ELSE q
       IN IF q1 = Two24 THEN <<sg * Two23, ex + 1>> ELSE <<sg * q1, ex>>

F32Mul(x, y) ==
  IF F32IsNaN(x) \/ F32IsNaN(y) THEN F32NaN
  ELSE IF F32IsInf(x) \/ F32IsInf(y)
       THEN (IF x[1] = 0 \/ y[1] = 0 THEN F32NaN
             ELSE IF Sgn(x[1]) * Sgn(y[1]) > 0 THEN F32PInf ELSE F32NInf)
  ELSE F32MulFinite(x, y)

\* long division: k more quotient bits of (q + r/b)
RECURSIVE DivBits(_, _, _, _)
DivBits(q, r, b, k) ==
  IF k = 0 THEN <<q, r>>
  ELSE IF 2 * r >= b THEN DivBits(2 * q + 1, 2 * r - b, b, k - 1)
                     ELSE DivBits(2 * q, 2 * r, b, k - 1)

\* x / y, correctly rounded
F32DivFinite(x, y) ==
  IF x[1] = 0 THEN F32Zero
  ELSE LET a  == Abs(x[1])
           b  == Abs(y[1])
           sg == Sgn(x[1]) * Sgn(y[1])
           k  == IF a >= b THEN 23 ELSE 24
           qr == DivBits(a \div b, a % b, b, k)
           q  == qr[1]
           r  == qr[2]
           up == 2 * r > b \/ (2 * r = b /\ q % 2 = 1)
           q1 == IF up THEN q + 1 ELSE q
           ex == x[2] - y[2] - k
       IN IF q1 = Two24 THEN <<sg * Two23, ex + 1>> ELSE <<sg * q1, ex>>

F32Div(x, y) ==
  IF F32IsNaN(x) \/ F32IsNaN(y) THEN F32NaN
  ELSE IF F32IsInf(x) THEN (IF F32IsInf(y) THEN F32NaN
                            ELSE IF Sgn(x[1]) * (IF y[1] < 0 THEN -1 ELSE 1) > 0
                                 THEN F32PInf ELSE F32NInf)
  ELSE IF F32IsInf(y) THEN F32Zero
  ELSE IF y[1] = 0 THEN (IF x[1] = 0 THEN F32NaN
                         ELSE IF x[1] > 0 THEN F32PInf ELSE F32NInf)
  ELSE F32DivFinite(x, y)

\* x < y (false when either is NaN)
F32Lt(x, y) ==
  IF F32IsNaN(x) \/ F32IsNaN(y) THEN FALSE
  ELSE IF x = y THEN FALSE
  ELSE IF x = F32NInf \/ y = F32PInf THEN TRUE
  ELSE IF x = F32PInf \/ y = F32NInf THEN FALSE
  ELSE IF Sgn(x[1]) # Sgn(y[1]) THEN Sgn(x[1]) < Sgn(y[1])
  ELSE IF x[1] > 0 THEN (x[2] < y[2] \/ (x[2] = y[2] /\ x[1] < y[1]))
  ELSE (x[2] > y[2] \/ (x[2] = y[2] /\ x[1] < y[1]))

F32Gt(x, y) == F32Lt(y, x)

\* the integer part of a finite float whose magnitude is below 2^31
F32Fits31(x) == x[1] = 0 \/ x[2] + 24 <= 31

F32Trunc(x) ==
  IF x[1] = 0 THEN 0
  ELSE IF x[2] >= 0 THEN x[1] * 2^x[2]
  ELSE IF -x[2] > 30 THEN 0
  ELSE Sgn(x[1]) * (Abs(x[1]) \div 2^(-x[2]))


\* a decimal literal n/d converted to float
F32Lit(n, d) == F32DivFinite(F32FromInt(n), F32FromInt(d))

F32One == F32FromInt(1)

(***************************************************************************)
(* Conversion of a floating value to `short`.  In range the cast truncates *)
(* toward zero.  Out of range (or NaN) the conversion is undefined in C;   *)
(* the outcomes modelled are those of the two usual code generators:       *)
(* "wrap" keeps the low 16 bits of the 32-bit conversion (conversion       *)
(* failures of the 32-bit step give 0), "saturate" clamps to the range.    *)
(***************************************************************************)
SHRT_MAX == 32767

SHRT_MIN == -32768

Builds == {"wrap", "saturate"}

InShort(n) == SHRT_MIN <= n /\ n <= SHRT_MAX

Wrap16(n) == ((n + 32768) % 65536) - 32768

\* (short) of an integer-valued result that may lie outside the range
NarrowInt(n, build) ==
  IF InShort(n) THEN n
  ELSE IF build = "wrap" THEN Wrap16(n)
  ELSE IF n > 0 THEN SHRT_MAX ELSE SHRT_MIN

\* (short)(x) for a float x
CastShort(x, build) ==
  IF F32IsNaN(x) THEN 0
  ELSE IF F32IsInf(x) \/ ~F32Fits31(x)
       THEN (IF build = "wrap" THEN 0
             ELSE IF x[1] > 0 THEN SHRT_MAX ELSE SHRT_MIN)
  ELSE NarrowInt(F32Trunc(x), build)

\* TRUE when (short)(x) is defined by the C standard
CastDefined(x) == F32IsFinite(x) /\ F32Fits31(x) /\ InShort(F32Trunc(x))


(***************************************************************************)
(* libm functions.  exp() and sqrt() are evaluated in double and the       *)
(* result is stored in a float; the tables hold that float for every       *)
(* argument the bounded inputs below produce (computed with the C          *)
(* library).  An argument outside a table has no value.                    *)
(***************************************************************************)
ExpTable == <<
  << <<-9739155, -31>>, <<16701301, -24>> >>,
  << <<-9133910, -28>>, <<16215950, -24>> >>,
  << <<-14913081, -24>>, <<13794639, -25>> >>,
  << <<-10683257, -23>>, <<9389814, -25>> >>,
  << <<-11231029, -23>>, <<8796254, -25>> >>,
  << <<-16119350, -23>>, <<9823131, -26>> >>,
  << <<-16445002, -23>>, <<9449097, -26>> >>,
  << <<-16555004, -23>>, <<9325997, -26>> >>,
  << <<-16643534, -23>>, <<9228092, -26>> >>,
  << <<-14913081, -30>>, <<16545810, -24>> >>,
  << <<-13715746, -24>>, <<14815098, -25>> >>,
  << <<-10207258, -23>>, <<9938032, -25>> >>,
  << <<-10785839, -23>>, <<9275688, -25>> >>,
  << <<-16054995, -23>>, <<9898781, -26>> >>,
  << <<-16412144, -23>>, <<9486181, -26>> >>,
  << <<-16532945, -23>>, <<9350553, -26>> >>,
  << <<-16630224, -23>>, <<9242745, -26>> >>,
  << <<-11573701, -24>>, <<8416343, -24>> >>,
  << <<-9314225, -23>>, <<11054381, -25>> >>,
  << <<-9944925, -23>>, <<10253730, -25>> >>,
  << <<-15927049, -23>>, <<10050918, -26>> >>,
  << <<-16346624, -23>>, <<9560564, -26>> >>,
  << <<-16488915, -23>>, <<9399761, -26>> >>,
  << <<-16603637, -23>>, <<9272086, -26>> >>,
  << <<-10565973, -26>>, <<14333171, -24>> >>,
  << <<-14913081, -26>>, <<13434144, -24>> >>,
  << <<-13733730, -23>>, <<13054435, -26>> >>,
  << <<-15180336, -23>>, <<10986630, -26>> >>,
  << <<-15695106, -23>>, <<10332701, -26>> >>,
  << <<-14548614, -31>>, <<16663939, -24>> >>,
  << <<-11740887, -23>>, <<16555086, -26>> >>,
  << <<-14039912, -23>>, <<12586543, -26>> >>,
  << <<-14899390, -23>>, <<11360818, -26>> >>,
  << <<-15624095, -23>>, <<10420540, -26>> >>,
  << <<-14682246, -23>>, <<11658739, -26>> >>,
  << <<-15487157, -23>>, <<10592044, -26>> >>,
  << <<-8388608, -24>>, <<10175896, -24>> >>,
  << <<-10737418, -27>>, <<15487322, -24>> >>,
  << <<-12326118, -25>>, <<11619385, -24>> >>,
  << <<-8388608, -26>>, <<14805841, -24>> >> >>

SqrtTable == <<
  << <<8388608, -23>>, <<11863283, -23>> >>,
  << <<-13421773, -27>>, <<15916265, -24>> >>,
  << <<-13421773, -28>>, <<16352407, -24>> >>,
  << <<-8947849, -28>>, <<16495226, -24>> >>,
  << <<-10737418, -29>>, <<16608596, -24>> >>,
  << <<15252015, -24>>, <<11590528, -23>> >>,
  << <<12905551, -24>>, <<11157892, -23>> >>,
  << <<13421773, -26>>, <<9189260, -23>> >>,
  << <<15080644, -27>>, <<8847335, -23>> >>,
  << <<13421773, -27>>, <<8798046, -23>> >>,
  << <<10737418, -30>>, <<8430447, -23>> >>,
  << <<10737418, -31>>, <<8409553, -23>> >>,
  << <<14316558, -32>>, <<8402577, -23>> >>,
  << <<8589935, -32>>, <<8396992, -23>> >>,
  << <<-14763950, -27>>, <<15827594, -24>> >>,
  << <<9227469, -23>>, <<12156248, -23>> >>,
  << <<14196106, -24>>, <<11397874, -23>> >>,
  << <<14763950, -26>>, <<9265520, -23>> >>,
  << <<16588708, -27>>, <<8891907, -23>> >>,
  << <<14763950, -27>>, <<8837947, -23>> >>,
  << <<11811160, -30>>, <<8434619, -23>> >>,
  << <<11811160, -31>>, <<8411645, -23>> >>,
  << <<15748213, -32>>, <<8403973, -23>> >>,
  << <<9448928, -32>>, <<8397830, -23>> >>,
  << <<-8724152, -26>>, <<15648745, -24>> >>,
  << <<10905190, -23>>, <<12721954, -23>> >>,
  << <<9913809, -23>>, <<12390795, -23>> >>,
  << <<8724152, -25>>, <<9416189, -23>> >>,
  << <<9802418, -26>>, <<8980386, -23>> >>,
  << <<8724152, -26>>, <<8917213, -23>> >>,
  << <<13958644, -30>>, <<8442958, -23>> >>,
  << <<13958644, -31>>, <<8415827, -23>> >>,
  << <<9305762, -31>>, <<8406764, -23>> >>,
  << <<11166915, -32>>, <<8399506, -23>> >>,
  << <<-8388608, -24>>, <<11863283, -24>> >>,
  << <<10485760, -21>>, <<10273905, -22>> >>,
  << <<9532509, -21>>, <<9877078, -22>> >>,
  << <<16131938, -22>>, <<9233333, -22>> >>,
  << <<9425402, -24>>, <<10483403, -23>> >>,
  << <<8388608, -24>>, <<10273905, -23>> >>,
  << <<13421773, -28>>, <<8595765, -23>> >>,
  << <<13421773, -29>>, <<8492818, -23>> >>,
  << <<8947849, -29>>, <<8458224, -23>> >>,
  << <<-14931722, -24>>, <<11128747, -25>> >>,
  << <<9332326, -20>>, <<13197069, -22>> >>,
  << <<8483933, -20>>, <<12646302, -22>> >>,
  << <<14357425, -21>>, <<11748659, -22>> >>,
  << <<14931722, -23>>, <<13986605, -23>> >>,
  << <<14931722, -24>>, <<11532429, -23>> >>,
  << <<11945378, -27>>, <<8753946, -23>> >>,
  << <<11945378, -28>>, <<8573223, -23>> >>,
  << <<15927170, -29>>, <<8512130, -23>> >>,
  << <<9556302, -29>>, <<8462937, -23>> >>,
  << <<10485760, -20>>, <<13910933, -22>> >>,
  << <<9532509, -20>>, <<13323706, -22>> >>,
  << <<16131938, -21>>, <<12365949, -22>> >>,
  << <<8388608, -22>>, <<14529495, -23>> >>,
  << <<9425402, -23>>, <<12224351, -23>> >>,
  << <<8947849, -28>>, <<8527272, -23>> >>,
  << <<10737418, -29>>, <<8472079, -23>> >>,
  << <<13107200, -17>>, <<10538058, -20>> >>,
  << <<11915636, -17>>, <<10052617, -20>> >>,
  << <<10082462, -17>>, <<9256205, -20>> >>,
  << <<10485760, -19>>, <<9610358, -21>> >>,
  << <<11781753, -20>>, <<14671646, -22>> >>,
  << <<11184811, -25>>, <<9686330, -23>> >>,
  << <<13107200, -16>>, <<14866131, -20>> >>,
  << <<11915636, -16>>, <<14177825, -20>> >>,
  << <<10082462, -16>>, <<13048186, -20>> >>,
  << <<10485760, -18>>, <<13428325, -21>> >>,
  << <<11781753, -19>>, <<10160244, -21>> >>,
  << <<11184811, -24>>, <<10829646, -23>> >>,
  << <<13421773, -25>>, <<9925535, -23>> >>,
  << <<9830400, -15>>, <<9096057, -19>> >>,
  << <<8936727, -15>>, <<8674190, -19>> >>,
  << <<15123692, -16>>, <<15963488, -20>> >>,
  << <<15728640, -18>>, <<16379281, -21>> >>,
  << <<8836315, -18>>, <<12355032, -21>> >>,
  << <<15728640, -19>>, <<11676448, -21>> >>,
  << <<12582912, -22>>, <<8388608, -22>> >>,
  << <<12582912, -23>>, <<13263554, -23>> >>,
  << <<10066330, -24>>, <<10610843, -23>> >>,
  << <<16384000, -15>>, <<11735154, -19>> >>,
  << <<14894545, -15>>, <<11190146, -19>> >>,
  << <<12603077, -15>>, <<10295492, -19>> >>,
  << <<14727191, -18>>, <<15858099, -21>> >>,
  << <<13107200, -18>>, <<14976661, -21>> >>,
  << <<10485760, -22>>, <<15693649, -23>> >>,
  << <<13981013, -23>>, <<13698539, -23>> >> >>

RECURSIVE Lookup(_, _, _)
Lookup(tab, key, i) ==
  IF tab[i][1] = key THEN tab[i][2] ELSE Lookup(tab, key, i + 1)

\* (float) exp((double) x)
F32Exp(x) == IF x[1] = 0 THEN F32One ELSE Lookup(ExpTable, x, 1)

\* (float) sqrt((double) q + 1.0)
F32SqrtPlus1(q) ==
  IF F32IsNaN(q) THEN F32NaN
  ELSE IF F32Lt(q, F32FromInt(-1)) THEN F32NaN
  ELSE IF q = F32FromInt(-1) THEN F32Zero
  ELSE IF q[1] = 0 THEN F32One
  ELSE Lookup(SqrtTable, q, 1)

(***************************************************************************)
(* The element-wise kernels: the value written to ts->tss_[t][p] for a     *)
(* valid date of an unmasked cell, from the band values (shorts).          *)
(***************************************************************************)
Scale10000 == F32FromInt(10000)

Scale1000 == F32FromInt(1000)

\* index_band: copy
BandValue(b) == b

\* index_differenced as it would be without the test of the sum for zero
DifferencedValueNoZeroTest(b1, b2, nodata, build) ==
  LET ind == F32Div(F32FromInt(b1 - b2), F32FromInt(b1 + b2))
  IN IF F32Lt(ind, F32FromInt(-1)) \/ F32Gt(ind, F32One)
     THEN nodata
     ELSE CastShort(F32Mul(ind, Scale10000), build)

\* index_differenced: (b1-b2)/(b1+b2) * 10000
DifferencedValue(b1, b2, nodata, build) ==
  LET tmp == F32FromInt(b1 + b2)
      ind == F32Div(F32FromInt(b1 - b2), tmp)
  IN IF tmp = F32Zero \/ F32Lt(ind, F32FromInt(-1)) \/ F32Gt(ind, F32One)
     THEN nodata
     ELSE CastShort(F32Mul(ind, Scale10000), build)

\* index_cont_remove: b_ minus the line through (w1,b1), (w2,b2) at w_
ContRemoveValue(b_, b1, b2, w_, w1, w2, build) ==
  LET tmp == F32Div(F32Add(F32Mul(F32FromInt(b1), F32Sub(w2, w_)),
                           F32Mul(F32FromInt(b2), F32Sub(w_, w1))),
                    F32Sub(w2, w1))
  IN CastShort(F32Sub(F32FromInt(b_), tmp), build)

\* index_ratio_minus1 as it would be without the test of b2 for zero
RatioMinus1ValueNoZeroTest(b1, b2, nodata, build) ==
  LET ind == F32Sub(F32Div(F32FromInt(b1), F32FromInt(b2)), F32One)
      sc  == F32Mul(ind, Scale1000)
  IN IF F32Gt(sc, F32FromInt(SHRT_MAX)) \/ F32Lt(sc, F32FromInt(SHRT_MIN))
     THEN nodata
     ELSE CastShort(sc, build)

\* index_ratio_minus1: (b1/b2 - 1) * 1000.  The subtraction is done in
\* double, where it is exact, and rounded once to float.
RatioMinus1Value(b1, b2, nodata, build) ==
  LET ind == F32Sub(F32Div(F32FromInt(b1), F32FromInt(b2)), F32One)
      sc  == F32Mul(ind, Scale1000)
  IN IF b2 = 0 \/ F32Gt(sc, F32FromInt(SHRT_MAX)) \/ F32Lt(sc, F32FromInt(SHRT_MIN))
     THEN nodata
     ELSE CastShort(sc, build)

\* index_msrre: (b1/b2 - 1) / sqrt(b1/b2 + 1) * 10000
MsrreValue(b1, b2, nodata, build) ==
  IF b2 # 0
  THEN LET q     == F32Div(F32FromInt(b1), F32FromInt(b2))
           upper == F32Sub(q, F32One)
           lower == F32SqrtPlus1(q)
           ind   == F32Div(upper, lower)
           sc    == F32Mul(ind, Scale10000)
       IN IF lower = F32Zero \/ F32Gt(sc, F32FromInt(SHRT_MAX))
                             \/ F32Lt(sc, F32FromInt(SHRT_MIN))
          THEN nodata
          ELSE CastShort(sc, build)
  ELSE nodata

\* index_kernelized: tanh-like kernel of the normalized difference.  The
\* invalid-date test and the b1 <= 0, b2 <= 0 tests share one condition.
KernelizedValue(valid, b1, b2, nodata, build) ==
  IF ~valid \/ b1 <= 0 \/ b2 <= 0
  THEN nodata
  ELSE LET sigma == F32Div(F32FromInt(b1 + b2), F32FromInt(2))
           diff  == F32FromInt(b1 - b2)
           tmp   == F32Exp(F32Neg(F32Div(F32Mul(diff, diff),
                              F32Mul(F32Mul(F32FromInt(2), sigma), sigma))))
           ind   == F32Div(F32Sub(F32One, tmp), F32Add(F32One, tmp))
       IN CastShort(F32Mul(ind, Scale10000), build)

\* index_resistance: f1*(nir-red)/(nir+f2*red-f3*blue+f4*scale) * 10000;
\* the range test is commented out in the source
ResistanceValue(n, r, b, f1, f2, f3, f4, rbc, nodata, build) ==
  LET x    == IF rbc THEN F32One ELSE F32Zero
      nir  == F32FromInt(n)
      blue == F32FromInt(b)
      red  == F32Sub(F32FromInt(r), F32Mul(x, F32Sub(blue, F32FromInt(r))))
      tmp  == F32Add(F32Sub(F32Add(nir, F32Mul(f2, red)), F32Mul(f3, blue)),
                     F32Mul(f4, Scale10000))
      ind  == F32Div(F32Mul(f1, F32Sub(nir, red)), tmp)
  IN IF tmp = F32Zero
     THEN nodata
     ELSE CastShort(F32Mul(ind, Scale10000), build)

\* index_tasseled: the coefficient table and the component enumeration
TCB == 0

TCG == 1

TCW == 2

TCD == 3

\* the digits of the coefficients: tc[i][k] stands for the float literal
\* tc[i][k] / 10000
tc == << << 2043, 4158, 5524, 5741, 3124, 2303 >>,
         << -1603, -2819, -4934, 7940, -2, -1446 >>,
         << 315, 2021, 3102, 1594, -6806, -6109 >> >>

\* tc[i][k] * v[k], the first k products summed left to right
RECURSIVE TasseledDot(_, _, _)
TasseledDot(i, v, k) ==
  LET prod == F32Mul(F32Lit(tc[i + 1][k], 10000), F32FromInt(v[k]))
  IN IF k = 1 THEN prod ELSE F32Add(TasseledDot(i, v, k - 1), prod)

\* one component
TasseledComponent(i, v) == TasseledDot(i, v, Len(v))

RECURSIVE TasseledSum(_, _, _, _, _)
TasseledSum(i, comp1, x, v, ind) ==
  IF i >= comp1 THEN ind
  ELSE TasseledSum(i + 1, comp1, x, v,
                   F32Add(ind, F32Mul(F32FromInt(x[i + 1]), TasseledComponent(i, v))))

\* v = <<blue, green, red, nir, swir1, swir2>>
TasseledValue(type, v, build) ==
  LET comp0 == IF type = TCD THEN 0 ELSE type
      comp1 == IF type = TCD THEN 3 ELSE type + 1
      x     == IF type = TCD THEN <<1, -1, -1>> ELSE <<1, 1, 1>>
  IN CastShort(TasseledSum(comp0, comp1, x, v, F32Zero), build)


(***************************************************************************)
(* Double precision (the SMA code).  The inputs of the model are chosen    *)
(* dyadic (reflectances that are multiples of 625/10000, endmember values  *)
(* and fractions with power-of-two denominators), so that the sums and     *)
(* products of the code are exact in double; a double is then an exact     *)
(* rational <<n, d>>, d > 0 and gcd(n, d) = 1.  <<1, 0>>, <<-1, 0>> and    *)
(* <<0, 0>> stand for +inf, -inf and NaN.                                  *)
(***************************************************************************)
RECURSIVE Gcd(_, _)
Gcd(a, b) == IF b = 0 THEN a ELSE Gcd(b, a % b)

RNorm(n, d) ==
  IF d = 0 THEN <<Sgn(n), 0>>
  ELSE LET g == Gcd(Abs(n), Abs(d))
       IN <<Sgn(d) * (n \div g), Abs(d) \div g>>

RInt(n) == <<n, 1>>

RZero == <<0, 1>>

ROne == <<1, 1>>

RNaN == <<0, 0>>

RIsNaN(x) == x = RNaN

RIsFinite(x) == x[2] # 0

RNeg(x) == <<-x[1], x[2]>>

RAdd(x, y) ==
  IF x[2] = 0 \/ y[2] = 0
  THEN (IF RIsNaN(x) \/ RIsNaN(y) THEN RNaN
        ELSE IF x[2] = 0 /\ y[2] = 0 THEN (IF x = y THEN x ELSE RNaN)
        ELSE IF x[2] = 0 THEN x ELSE y)
  ELSE LET g == Gcd(x[2], y[2])
       IN RNorm(x[1] * (y[2] \div g) + y[1] * (x[2] \div g), x[2] * (y[2] \div g))

RSub(x, y) == RAdd(x, RNeg(y))

RMul(x, y) ==
  IF x[2] = 0 \/ y[2] = 0
  THEN (IF RIsNaN(x) \/ RIsNaN(y) \/ x[1] = 0 \/ y[1] = 0 THEN RNaN
        ELSE <<Sgn(x[1]) * Sgn(y[1]), 0>>)
  ELSE LET g1 == Gcd(Abs(x[1]), y[2])
           g2 == Gcd(Abs(y[1]), x[2])
       IN RNorm((x[1] \div g1) * (y[1] \div g2), (x[2] \div g2) * (y[2] \div g1))

\* x / y with IEEE results for a zero divisor (the zero is +0)
RDiv(x, y) ==
  IF RIsNaN(x) \/ RIsNaN(y) THEN RNaN
  ELSE IF y[2] = 0 THEN (IF x[2] = 0 THEN RNaN ELSE RZero)
  ELSE IF x[2] = 0 THEN <<x[1] * (IF y[1] < 0 THEN -1 ELSE 1), 0>>
  ELSE IF y[1] = 0 THEN <<Sgn(x[1]), 0>>
  ELSE RMul(x, RNorm(y[2], y[1]))

\* x < y, false when either is NaN
RLt(x, y) ==
  IF RIsNaN(x) \/ RIsNaN(y) \/ x = y THEN FALSE
  ELSE IF x[2] = 0 THEN x[1] < 0
  ELSE IF y[2] = 0 THEN y[1] > 0
  ELSE \/ x[1] \div x[2] < y[1] \div y[2]
       \/ /\ x[1] \div x[2] = y[1] \div y[2]
          /\ (x[1] % x[2]) * y[2] < (y[1] % y[2]) * x[2]

RLe(x, y) == ~RIsNaN(x) /\ ~RIsNaN(y) /\ (x = y \/ RLt(x, y))

\* floor(n * 10^k / d) for 0 <= n, 0 < d, digit by digit
RECURSIVE ScaledFloor(_, _, _, _)
ScaledFloor(q, r, d, k) ==
  IF k = 0 THEN q
  ELSE ScaledFloor(10 * q + (10 * r) \div d, (10 * r) % d, d, k - 1)

\* floor(sqrt(n)), by bisection on [lo, hi)
RECURSIVE ISqrt(_, _, _)
ISqrt(n, lo, hi) ==
  IF hi - lo <= 1 THEN lo
  ELSE LET mid == (lo + hi) \div 2
       IN IF mid * mid <= n THEN ISqrt(n, mid, hi) ELSE ISqrt(n, lo, mid)

\* (short)(x * scale) for a double x, scale = 10000
QuantizeD(x, build) ==
  IF RIsNaN(x) THEN 0
  ELSE IF x[2] = 0 THEN (IF build = "wrap" THEN 0
                         ELSE IF x[1] > 0 THEN SHRT_MAX ELSE SHRT_MIN)
  ELSE NarrowInt(Sgn(x[1]) * ScaledFloor(Abs(x[1]) \div x[2], Abs(x[1]) % x[2], x[2], 4),
                 build)

\* (short)(sqrt(q) * scale) for a double q >= 0
QuantizeSqrt(q, build) ==
  NarrowInt(ISqrt(ScaledFloor(q[1] \div q[2], q[1] % q[2], q[2], 8), 0, 46341), build)


(***************************************************************************)
(* The inputs of one call of tsa_spectral_index.                           *)
(***************************************************************************)
\* number of cells (nc)
NC == 2

\* number of dates (nt)
NT == 2

\* the threads of a parallel region
Workers == {0, 1}

NW == Cardinality(Workers)

Cells == 0 .. NC - 1

Dates == 0 .. NT - 1

\* the caller's nodata value
Nodata == -9999

\* the band layout of a ten-band sensor; absent bands are negative
sen == [blue |-> 0, green |-> 1, red |-> 2, rededge1 |-> 3, rededge2 |-> 4,
        rededge3 |-> 5, bnir |-> 6, nir |-> 7, swir1 |-> 8, swir2 |-> 9,
        swir0 |-> -1, vv |-> -1, vh |-> -1,
        w_nir |-> <<865, 1000>>, w_swir1 |-> <<1610, 1000>>,
        w_swir2 |-> <<2190, 1000>>]

\* a spectrum from a nir-like, a red-like and a blue-like reflectance
Spectrum(a, b, c) == <<c, c, b, b, a, a, a, a, b, c>>

\* number of bands of the ARD (get_brick_nbands)
NB == Len(Spectrum(0, 0, 0))

BandIds == 0 .. NB - 1

\* reflectances that are multiples of 625: reflectance / 10000 is dyadic
NiceTriples == << <<5000, 2500, 1250>>, <<2500, 5000, 625>>, <<0, 0, 0>>,
                  <<1250, 625, 2500>> >>

BandVals == {-100, 0, 10, 11, 13, 89, 5000}

BlueVals == {1000, 1999, 2000}

\* scenes: the triple of every (date, cell)
NiceScene(rot) ==
  [t \in Dates |-> [p \in Cells |->
     NiceTriples[((rot + t * NC + p) % Len(NiceTriples)) + 1]]]

GridScene(a, b, c) ==
  [t \in Dates |-> [p \in Cells |->
     IF (t + p) % 2 = 0 THEN <<a, b, c>> ELSE <<b, a, c>>]]

\* the ARD of a scene: ard[t].msk[p], ard[t].dat[b][p]
ArdOf(scene, invalid) ==
  [t \in Dates |->
     [msk |-> [p \in Cells |-> <<t, p>> \notin invalid],
      dat |-> [b \in BandIds |-> [p \in Cells |->
                 Spectrum(scene[t][p][1], scene[t][p][2], scene[t][p][3])[b + 1]]]]]

\* the processing mask: a NULL pointer, or one flag per cell
NoMask == [null |-> TRUE, flag |-> [p \in Cells |-> FALSE]]

\* what the caller's output arrays hold before the call
Fills == {0, Nodata}

\* endmember table: a bright material, and shade as the last endmember
EndTab(nb) ==
  [i \in 0 .. nb - 1 |->
     <<RNorm(Spectrum(5000, 2500, 1250)[i + 1], 10000), RNorm(1, 16)>>]

Endmembers(nb) == [nb |-> nb, ne |-> Len(EndTab(nb)[0]), tab |-> EndTab(nb)]

\* SMA parameters: non-negativity, sum-to-one, shade normalization,
\* residual output, selected endmember (from 1)
SmaPars ==
  [pos : BOOLEAN, sto : BOOLEAN, shn : BOOLEAN, orms : BOOLEAN,
   emb : 1 .. Endmembers(NB).ne]

SmaDefault == [pos |-> TRUE, sto |-> TRUE, shn |-> FALSE, orms |-> TRUE, emb |-> 1]

\* fraction vectors an inversion may leave in d
DVecs == << <<RNorm(1, 2), RNorm(1, 2)>>, <<RNorm(3, 4), RNorm(1, 4)>>,
            <<RZero, ROne>>, <<RNorm(1, 2), ROne>>,
            <<RNorm(-1, 4), RNorm(3, 4)>> >>

\* the index requests of the model: one or more per kernel, and an
\* identifier the switch does not know
KernelRequests == {"NDV", "CRE", "EVI", "EV2", "Mre"}

Requests == {"NIR", "NDV", "EVI", "ARV", "EV2", "CRE", "Mre", "KNV",
             "TCB", "TCD", "CSW", "XXX"}


(***************************************************************************)
(* State.                                                                  *)
(***************************************************************************)
VARIABLES
  index,      \* tsa->index[idx], the requested index
  mask_,      \* the processing mask: NULL, or a flag per cell
  ard,        \* the ARD: per date the validity flags and the reflectances
  sma,        \* the SMA parameters
  endmember,  \* the endmember table
  oracle,     \* selects the numerical outcome of the inversions
  build,      \* what the build does with an out-of-range conversion
  fill,       \* what the caller's output arrays hold before the call
  ts,         \* the output arrays tss_ and rms_
  pc,         \* "call", "parallel", "returned", "exited" or "solve"
  taken,      \* the loop iterations handed out
  cur,        \* per thread, the iteration it is in, or -1
  priv,       \* per thread, its private buffers x and d
  out,        \* what was printed
  ret,        \* the return value
  cited,      \* the citation registered with cite_me
  nn,         \* the state of one constrained inversion
  acc         \* per thread, the locations it read and wrote in the region

inputs == <<index, mask_, ard, sma, endmember, oracle, build, fill>>

vars == <<index, mask_, ard, sma, endmember, oracle, build, fill, ts, pc, taken,
          cur, priv, out, ret, cited, nn, acc>>

\* the output arrays as the caller hands them over
ts0 == [tss_ |-> [t \in Dates |-> [p \in Cells |-> fill]],
        rms_ |-> [t \in Dates |-> [p \in Cells |-> fill]]]

(***************************************************************************)
(* tsa_spectral_index: the switch.  Each request names its kernel, the     *)
(* bands and factors the kernel is called with, and the citation.          *)
(***************************************************************************)
Band(b, c) == [fn |-> "band", b |-> <<b>>, cite |-> c]

Differenced(b1, b2, c) == [fn |-> "differenced", b |-> <<b1, b2>>, cite |-> c]

Resistance(f1, f2, f3, f4, rbc, c) ==
  [fn |-> "resistance", b |-> <<sen.nir, sen.red, sen.blue>>,
   f |-> <<f1, f2, f3, f4>>, rbc |-> rbc, cite |-> c]

Tasseled(type, c) ==
  [fn |-> "tasseled", type |-> type, cite |-> c,
   b |-> <<sen.blue, sen.green, sen.red, sen.nir, sen.swir1, sen.swir2>>]

Switch(i) ==
  CASE i = "BLU" -> Band(sen.blue, "none")
    [] i = "GRN" -> Band(sen.green, "none")
    [] i = "RED" -> Band(sen.red, "none")
    [] i = "NIR" -> Band(sen.nir, "none")
    [] i = "SW0" -> Band(sen.swir0, "none")
    [] i = "SW1" -> Band(sen.swir1, "none")
    [] i = "SW2" -> Band(sen.swir2, "none")
    [] i = "RE1" -> Band(sen.rededge1, "none")
    [] i = "RE2" -> Band(sen.rededge2, "none")
    [] i = "RE3" -> Band(sen.rededge3, "none")
    [] i = "BNR" -> Band(sen.bnir, "none")
    [] i = "NDV" -> Differenced(sen.nir, sen.red, "NDVI")
    [] i = "EVI" -> Resistance(<<25, 10>>, <<60, 10>>, <<75, 10>>, <<10, 10>>,
                               FALSE, "EVI")
    [] i = "NBR" -> Differenced(sen.nir, sen.swir2, "NBR")
    [] i = "ARV" -> Resistance(<<10, 10>>, <<10, 10>>, <<0, 10>>, <<0, 10>>,
                               TRUE, "SARVI")
    [] i = "SAV" -> Resistance(<<15, 10>>, <<10, 10>>, <<0, 10>>, <<5, 10>>,
                               FALSE, "SARVI")
    [] i = "SRV" -> Resistance(<<15, 10>>, <<10, 10>>, <<0, 10>>, <<5, 10>>,
                               TRUE, "SARVI")
    [] i = "TCB" -> Tasseled(TCB, "TCAP")
    [] i = "TCG" -> Tasseled(TCG, "TCAP")
    [] i = "TCW" -> Tasseled(TCW, "TCAP")
    [] i = "TCD" -> Tasseled(TCD, "DISTURBANCE")
    [] i = "NDB" -> Differenced(sen.swir1, sen.nir, "NDBI")
    [] i = "NDW" -> Differenced(sen.green, sen.nir, "NDWI")
    [] i = "MNW" -> Differenced(sen.green, sen.swir1, "MNDWI")
    [] i = "NDS" -> Differenced(sen.green, sen.swir1, "NDSI")
    [] i = "SMA" -> [fn |-> "unmixed", b |-> <<>>, cite |-> "SMA"]
    [] i = "BVV" -> Band(sen.vv, "none")
    [] i = "BVH" -> Band(sen.vh, "none")
    [] i = "NDT" -> Differenced(sen.swir1, sen.swir2, "NDTI")
    [] i = "NDM" -> Differenced(sen.nir, sen.swir1, "NDMI")
    [] i = "KNV" -> [fn |-> "kernelized", b |-> <<sen.nir, sen.red>>, cite |-> "KNDVI"]
    [] i = "ND1" -> Differenced(sen.rededge2, sen.rededge1, "NDRE1")
    [] i = "ND2" -> Differenced(sen.rededge3, sen.rededge1, "NDRE2")
    [] i = "CRE" -> [fn |-> "ratio_minus1", b |-> <<sen.rededge3, sen.rededge1>>,
                     cite |-> "CIre"]
    [] i = "NR1" -> Differenced(sen.bnir, sen.rededge1, "NDVIre1")
    [] i = "NR2" -> Differenced(sen.bnir, sen.rededge2, "NDVIre2")
    [] i = "NR3" -> Differenced(sen.bnir, sen.rededge3, "NDVIre3")
    [] i = "N1n" -> Differenced(sen.nir, sen.rededge1, "NDVIre1n")
    [] i = "N2n" -> Differenced(sen.nir, sen.rededge2, "NDVIre2n")
    [] i = "N3n" -> Differenced(sen.nir, sen.rededge3, "NDVIre3n")
    [] i = "Mre" -> [fn |-> "msrre", b |-> <<sen.bnir, sen.rededge1>>, cite |-> "MSRre"]
    [] i = "Mrn" -> [fn |-> "msrre", b |-> <<sen.nir, sen.rededge1>>, cite |-> "MSRren"]
    [] i = "CCI" -> Differenced(sen.green, sen.red, "CCI")
    [] i = "EV2" -> [fn |-> "resistance", b |-> <<sen.nir, sen.red, sen.red>>,
                     f |-> << <<24, 10>>, <<10, 10>>, <<0, 10>>, <<10, 10>> >>,
                     rbc |-> FALSE, cite |-> "EV2"]
    [] i = "CSW" -> [fn |-> "cont_remove", b |-> <<sen.swir1, sen.nir, sen.swir2>>,
                     w |-> <<sen.w_swir1, sen.w_nir, sen.w_swir2>>, cite |-> "none"]
    [] OTHER -> [fn |-> "default", b |-> <<>>, cite |-> "none"]


(***************************************************************************)
(* The loop body of the element-wise kernels.                              *)
(***************************************************************************)
Dat(t, b, p) == ard[t].dat[b][p]

\* the float of a decimal literal, given as <<digits, power of ten>>
Float(lit) == IF lit[1] = 0 THEN F32Zero ELSE F32Lit(lit[1], lit[2])

\* the value of kernel k as it would be without the test of the validity
\* flag of the date
KernelValueNoValidity(k, t, p) ==
  CASE k.fn = "kernelized" ->
         KernelizedValue(TRUE, Dat(t, k.b[1], p), Dat(t, k.b[2], p), Nodata, build)
    [] k.fn = "band" -> BandValue(Dat(t, k.b[1], p))
    [] k.fn = "differenced" ->
         DifferencedValue(Dat(t, k.b[1], p), Dat(t, k.b[2], p), Nodata, build)
    [] k.fn = "cont_remove" ->
         ContRemoveValue(Dat(t, k.b[1], p), Dat(t, k.b[2], p), Dat(t, k.b[3], p),
                         Float(k.w[1]), Float(k.w[2]), Float(k.w[3]), build)
    [] k.fn = "ratio_minus1" ->
         RatioMinus1Value(Dat(t, k.b[1], p), Dat(t, k.b[2], p), Nodata, build)
    [] k.fn = "msrre" ->
         MsrreValue(Dat(t, k.b[1], p), Dat(t, k.b[2], p), Nodata, build)
    [] k.fn = "resistance" ->
         ResistanceValue(Dat(t, k.b[1], p), Dat(t, k.b[2], p), Dat(t, k.b[3], p),
                         Float(k.f[1]), Float(k.f[2]), Float(k.f[3]), Float(k.f[4]),
                         k.rbc, Nodata, build)
    [] k.fn = "tasseled" ->
         TasseledValue(k.type, [i \in 1 .. Len(k.b) |-> Dat(t, k.b[i], p)], build)

\* the value a kernel k stores for date t of cell p, the cell not masked
KernelValue(k, t, p) ==
  IF k.fn = "kernelized"
  THEN KernelizedValue(ard[t].msk[p], Dat(t, k.b[1], p), Dat(t, k.b[2], p), Nodata, build)
  ELSE IF ~ard[t].msk[p] THEN Nodata
  ELSE CASE k.fn = "band" -> BandValue(Dat(t, k.b[1], p))
         [] k.fn = "differenced" ->
              DifferencedValue(Dat(t, k.b[1], p), Dat(t, k.b[2], p), Nodata, build)
         [] k.fn = "cont_remove" ->
              ContRemoveValue(Dat(t, k.b[1], p), Dat(t, k.b[2], p), Dat(t, k.b[3], p),
                              Float(k.w[1]), Float(k.w[2]), Float(k.w[3]), build)
         [] k.fn = "ratio_minus1" ->
              RatioMinus1Value(Dat(t, k.b[1], p), Dat(t, k.b[2], p), Nodata, build)
         [] k.fn = "msrre" ->
              MsrreValue(Dat(t, k.b[1], p), Dat(t, k.b[2], p), Nodata, build)
         [] k.fn = "resistance" ->
              ResistanceValue(Dat(t, k.b[1], p), Dat(t, k.b[2], p), Dat(t, k.b[3], p),
                              Float(k.f[1]), Float(k.f[2]), Float(k.f[3]), Float(k.f[4]),
                              k.rbc, Nodata, build)
         [] k.fn = "tasseled" ->
              TasseledValue(k.type, [i \in 1 .. Len(k.b) |-> Dat(t, k.b[i], p)], build)

Masked(p) == ~mask_.null /\ ~mask_.flag[p]

\* one iteration of the loop over the cells: the arrays after cell p
KernelCell(k, p, old) ==
  [old EXCEPT !.tss_ = [t \in Dates |->
     [old.tss_[t] EXCEPT ![p] = IF Masked(p) THEN Nodata ELSE KernelValue(k, t, p)]]]

(***************************************************************************)
(* index_unmixed: the set-up and the loop body.                            *)
(***************************************************************************)
M == endmember.ne

\* the rows of Z and of x: one more than the bands under sum-to-one
L == endmember.nb + (IF sma.sto THEN 1 ELSE 0)

itmax == 30 * M

\* Z: the endmember table, and a row of ones under sum-to-one
Z(i, j) == IF i < endmember.nb THEN endmember.tab[i][j + 1] ELSE ROne

\* the content of memory that was allocated and not written
Uninit == <<0, -1>>

\* the private buffers of a thread after their allocation
Alloc ==
  [x |-> [i \in 0 .. L - 1 |-> IF sma.sto /\ i = L - 1 THEN ROne ELSE Uninit],
   d |-> [j \in 0 .. M - 1 |-> Uninit]]

NoBuffers == [x |-> <<>>, d |-> <<>>]

\* a float as a double
F32ToR(x) ==
  IF x[1] = 0 THEN RZero
  ELSE IF x[2] >= 0 THEN RInt(x[1] * 2^x[2]) ELSE RNorm(x[1], 2^(-x[2]))

\* x after the copy of the spectrum of (t, p)
CopySpectrum(t, p, x) ==
  [i \in 0 .. L - 1 |->
     IF i < endmember.nb
     THEN F32ToR(F32Div(F32FromInt(Dat(t, i, p)), Scale10000))
     ELSE x[i]]

\* the fractions an inversion of the spectrum of (t, p) ends with
Solve(t, p) ==
  LET v == DVecs[((oracle + (Dat(t, sen.nir, p) + Dat(t, sen.blue, p)) \div 625)
                  % Len(DVecs)) + 1]
  IN [j \in 0 .. M - 1 |-> v[j + 1]]

RECURSIVE Dsum(_, _, _)
Dsum(d, i, j) ==
  IF j = M THEN RZero ELSE RAdd(RMul(d[j], Z(i, j)), Dsum(d, i, j + 1))

RECURSIVE Rsum(_, _, _)
Rsum(x, d, i) ==
  IF i = L THEN RZero
  ELSE LET res == RSub(x[i], Dsum(d, i, 0))
       IN RAdd(RMul(res, res), Rsum(x, d, i + 1))

\* the residual stored for (t, p)
RmsValue(x, d) == QuantizeSqrt(RDiv(Rsum(x, d, 0), RInt(L)), build)

\* the shade normalization as it would be if the shade fraction were kept
ShadeNormalizeKeepShade(d) ==
  IF sma.shn
  THEN LET f == RDiv(ROne, RSub(ROne, d[M - 1]))
       IN [j \in 0 .. M - 1 |-> IF j = M - 1 THEN d[j] ELSE RMul(d[j], f)]
  ELSE d

\* d after the optional shade normalization
ShadeNormalize(d) ==
  IF sma.shn
  THEN LET f == RDiv(ROne, RSub(ROne, d[M - 1]))
       IN [j \in 0 .. M - 1 |-> IF j = M - 1 THEN RZero ELSE RMul(d[j], f)]
  ELSE d

\* the fraction stored for (t, p)
TssValue(d) == QuantizeD(ShadeNormalize(d)[sma.emb - 1], build)

\* the dates of cell p that are inverted
ValidDates(p) == {t \in Dates : ard[t].msk[p]}

\* the loop body as it would be if the fraction stored were taken from
\* what the thread's buffer d holds from its previous cell
UnmixedCellStale(p, old, buf) ==
  IF Masked(p)
  THEN [old EXCEPT !.tss_ = [t \in Dates |-> [old.tss_[t] EXCEPT ![p] = Nodata]]]
  ELSE LET d(t) == IF buf.d[0] = Uninit THEN Solve(t, p) ELSE buf.d
       IN [tss_ |-> [t \in Dates |-> [old.tss_[t] EXCEPT ![p] =
                       IF ~ard[t].msk[p] THEN Nodata ELSE TssValue(d(t))]],
           rms_ |-> [t \in Dates |-> [old.rms_[t] EXCEPT ![p] =
                       IF ~sma.orms THEN old.rms_[t][p]
                       ELSE IF ~ard[t].msk[p] THEN Nodata
                       ELSE RmsValue(CopySpectrum(t, p, buf.x), Solve(t, p))]]]

\* the iteration as it would be if the spectrum were copied into x only
\* while x is as allocated: a later (t, p) gets the residual of the
\* spectrum x was left with
UnmixedCellStaleSpectrum(p, old, buf) ==
  IF Masked(p)
  THEN [old EXCEPT !.tss_ = [t \in Dates |-> [old.tss_[t] EXCEPT ![p] = Nodata]]]
  ELSE LET x(t) == IF buf.d[0] = Uninit THEN CopySpectrum(t, p, buf.x) ELSE buf.x
       IN [tss_ |-> [t \in Dates |-> [old.tss_[t] EXCEPT ![p] =
                       IF ~ard[t].msk[p] THEN Nodata ELSE TssValue(Solve(t, p))]],
           rms_ |-> [t \in Dates |-> [old.rms_[t] EXCEPT ![p] =
                       IF ~sma.orms THEN old.rms_[t][p]
                       ELSE IF ~ard[t].msk[p] THEN Nodata
                       ELSE RmsValue(x(t), Solve(t, p))]]]

\* one iteration of the loop over the cells: the arrays after cell p
UnmixedCell(p, old, buf) ==
  IF Masked(p)
  THEN [old EXCEPT !.tss_ = [t \in Dates |-> [old.tss_[t] EXCEPT ![p] = Nodata]]]
  ELSE [tss_ |-> [t \in Dates |-> [old.tss_[t] EXCEPT ![p] =
                    IF ~ard[t].msk[p] THEN Nodata ELSE TssValue(Solve(t, p))]],
        rms_ |-> [t \in Dates |-> [old.rms_[t] EXCEPT ![p] =
                    IF ~sma.orms THEN old.rms_[t][p]
                    ELSE IF ~ard[t].msk[p] THEN Nodata
                    ELSE RmsValue(CopySpectrum(t, p, buf.x), Solve(t, p))]]]

\* the private buffers after cell p: those of the last date inverted
UnmixedBuffers(p, buf) ==
  IF Masked(p) \/ ValidDates(p) = {} THEN buf
  ELSE LET t == CHOOSE u \in ValidDates(p) : \A v \in ValidDates(p) : v <= u
       IN [x |-> CopySpectrum(t, p, buf.x), d |-> ShadeNormalize(Solve(t, p))]


(***************************************************************************)
(* The memory a thread touches in one iteration of the loop over the       *)
(* cells.  A shared object is a location by its name, an array by name and *)
(* cell; what is private to a thread (the variables of the private clause  *)
(* and the objects declared inside the region) carries the thread.         *)
(***************************************************************************)
Private(w) == <<"private", w>>

\* the element-wise kernels: the mask entry and, if the cell is not masked,
\* the validity flags and band values of the cell are read; the output of
\* the cell is written
KernelReads(p) ==
  (IF mask_.null THEN {} ELSE {<<"mask_", p>>})
  \cup (IF Masked(p) THEN {} ELSE {<<"ard", p>>})

KernelWrites(w, p) == {<<"tss_", p>>, Private(w)}

\* the matrix the unconstrained inversion factorizes, as it would be
\* without the copy of t(Z)Z
LUMatrixShared(w) == <<"ZtZ">>

\* the matrix the unconstrained inversion factorizes in place: the thread's
\* copy ZtZ_ of t(Z)Z
LUMatrix(w) == <<"ZtZ_", w>>

\* index_unmixed: a cell with a valid date also reads Z and t(Z)Z
UnmixedReads(p) ==
  KernelReads(p)
  \cup (IF Masked(p) THEN {} ELSE {<<"sma">>})
  \cup (IF Masked(p) \/ ValidDates(p) = {} THEN {}
        ELSE {<<"endmember">>, <<"Z">>, <<"ZtZ">>})

UnmixedWrites(w, p) ==
  {<<"tss_", p>>, Private(w)}
  \cup (IF ~Masked(p) /\ sma.orms THEN {<<"rms_", p>>} ELSE {})
  \cup (IF Masked(p) \/ ValidDates(p) = {} \/ sma.pos THEN {} ELSE {LUMatrix(w)})

(***************************************************************************)
(* The calls of the model.                                                 *)
(***************************************************************************)
\* the mask and the validity flags of a call
MaskCases ==
  { [mask_ |-> NoMask, invalid |-> {}],
    [mask_ |-> NoMask, invalid |-> {<<0, 0>>}],
    [mask_ |-> [null |-> FALSE, flag |-> [p \in Cells |-> p # 0]],
     invalid |-> {<<NT - 1, NC - 1>>}],
    [mask_ |-> [null |-> FALSE, flag |-> [p \in Cells |-> TRUE]], invalid |-> {}] }

\* element-wise requests and the unknown identifier, on the nice scenes
CallsA ==
  { [index |-> i, mask_ |-> m.mask_, invalid |-> m.invalid, scene |-> NiceScene(rot),
     sma |-> SmaDefault, endmember |-> Endmembers(NB), oracle |-> 0,
     fill |-> f, build |-> b] :
    i \in Requests, m \in MaskCases, rot \in 0 .. 1,
    f \in Fills, b \in Builds }

\* unmixing, on one nice scene, with every parameter combination
CallsB ==
  { [index |-> "SMA", mask_ |-> m.mask_, invalid |-> m.invalid, scene |-> NiceScene(0),
     sma |-> s, endmember |-> Endmembers(NB), oracle |-> o, fill |-> f, build |-> b] :
    m \in {c \in MaskCases : c.invalid # {}}, s \in SmaPars,
    o \in 0 .. Len(DVecs) - 1, f \in Fills, b \in Builds }

\* unmixing with an endmember table that has one band less than the ARD
CallsC ==
  [index : {"SMA"}, mask_ : {m.mask_ : m \in MaskCases}, invalid : {{}},
   scene : {NiceScene(0)},
   sma : {SmaDefault}, endmember : {Endmembers(NB - 1)}, oracle : {0},
   fill : Fills, build : Builds]

\* the two-band kernels on every pair of band values
CallsKOf(requests, blues) ==
  { [index |-> i, mask_ |-> NoMask, invalid |-> {}, scene |-> GridScene(a, b, c),
     sma |-> SmaDefault, endmember |-> Endmembers(NB), oracle |-> 0,
     fill |-> 0, build |-> bu] :
    i \in requests, a \in BandVals, b \in BandVals, c \in blues, bu \in Builds }

\* the blue band varies for the one request that reads it
CallsK ==
  CallsKOf({"EVI"}, BlueVals) \cup CallsKOf(KernelRequests \ {"EVI"}, {1000})

\* band values up to twice the reflectance scale, for the tasseled cap
TcVals == {0, 10000, 20000}

\* the tasseled cap components on bright scenes
CallsT ==
  { [index |-> i, mask_ |-> NoMask, invalid |-> {}, scene |-> GridScene(a, b, c),
     sma |-> SmaDefault, endmember |-> Endmembers(NB), oracle |-> 0,
     fill |-> 0, build |-> bu] :
    i \in {"TCB", "TCD"}, a \in TcVals, b \in TcVals, c \in {10000, 20000},
    bu \in Builds }

Idle == [pcs |-> "idle"]

NoAccess == [w \in Workers |-> [rd |-> {}, wr |-> {}]]

InitCall(c) ==
  /\ index = c.index
  /\ mask_ = c.mask_
  /\ ard = ArdOf(c.scene, c.invalid)
  /\ sma = c.sma
  /\ endmember = c.endmember
  /\ oracle = c.oracle
  /\ build = c.build
  /\ fill = c.fill
  /\ ts = ts0
  /\ pc = "call"
  /\ taken = {}
  /\ cur = [w \in Workers |-> -1]
  /\ priv = [w \in Workers |-> NoBuffers]
  /\ out = <<>>
  /\ ret = "none"
  /\ cited = "none"
  /\ nn = Idle
  /\ acc = NoAccess

Init ==
  \/ \E c \in CallsA : InitCall(c)
  \/ \E c \in CallsB : InitCall(c)
  \/ \E c \in CallsC : InitCall(c)
  \/ \E c \in CallsK : InitCall(c)
  \/ \E c \in CallsT : InitCall(c)

(***************************************************************************)
(* The actions of a call.                                                  *)
(***************************************************************************)
\* the default branch of the switch: a message, and the call returns
CallDefault ==
  /\ pc = "call"
  /\ Switch(index).fn = "default"
  /\ out' = Append(out, "unknown INDEX")
  /\ pc' = "returned"
  /\ ret' = "SUCCESS"
  /\ UNCHANGED <<inputs, acc, ts, taken, cur, priv, cited, nn>>

\* index_unmixed with a table of another band count: a message, and exit(1)
CallMismatch ==
  /\ pc = "call"
  /\ Switch(index).fn = "unmixed"
  /\ endmember.nb # NB
  /\ cited' = Switch(index).cite
  /\ out' = Append(out, "number of bands in endmember file and ARD is different.")
  /\ pc' = "exited"
  /\ UNCHANGED <<inputs, acc, ts, taken, cur, priv, ret, nn>>

\* the entry of a kernel as it would be without the comparison of the
\* band counts
CallKernelNoBandCheck ==
  /\ pc = "call"
  /\ Switch(index).fn # "default"
  /\ cited' = IF Switch(index).cite = "none" THEN cited ELSE Switch(index).cite
  /\ priv' = [w \in Workers |->
                IF Switch(index).fn = "unmixed" THEN Alloc ELSE NoBuffers]
  /\ pc' = "parallel"
  /\ UNCHANGED <<inputs, acc, ts, taken, cur, out, ret, nn>>

\* a kernel is entered: its parallel region starts, each thread of
\* index_unmixed allocates its buffers
CallKernel ==
  /\ pc = "call"
  /\ Switch(index).fn # "default"
  /\ Switch(index).fn = "unmixed" => endmember.nb = NB
  /\ cited' = IF Switch(index).cite = "none" THEN cited ELSE Switch(index).cite
  /\ priv' = [w \in Workers |->
                IF Switch(index).fn = "unmixed" THEN Alloc ELSE NoBuffers]
  /\ pc' = "parallel"
  /\ UNCHANGED <<inputs, acc, ts, taken, cur, out, ret, nn>>

\* the iterations of thread w under the static schedule
Own(w) ==
  LET q  == NC \div NW
      r  == NC % NW
      s0 == IF w < r THEN (q + 1) * w ELSE q * w + r
      n  == IF w < r THEN q + 1 ELSE q
  IN {p \in Cells : s0 <= p /\ p < s0 + n}

Min(S) == CHOOSE x \in S : \A y \in S : x <= y

\* thread w gets its next iteration: the next of all under the dynamic
\* schedule of index_unmixed, the next of its own under the static one
Take(w) ==
  /\ pc = "parallel"
  /\ cur[w] = -1
  /\ LET free == (IF Switch(index).fn = "unmixed" THEN Cells ELSE Own(w)) \ taken
     IN /\ free # {}
        /\ cur' = [cur EXCEPT ![w] = Min(free)]
        /\ taken' = taken \cup {Min(free)}
  /\ UNCHANGED <<inputs, acc, ts, pc, priv, out, ret, cited, nn>>

\* thread w runs the loop body for its cell
Process(w) ==
  /\ pc = "parallel"
  /\ cur[w] # -1
  /\ IF Switch(index).fn = "unmixed"
     THEN /\ ts' = UnmixedCell(cur[w], ts, priv[w])
          /\ priv' = [priv EXCEPT ![w] = UnmixedBuffers(cur[w], priv[w])]
     ELSE /\ ts' = KernelCell(Switch(index), cur[w], ts)
          /\ priv' = priv
  /\ cur' = [cur EXCEPT ![w] = -1]
  /\ acc' = [acc EXCEPT ![w] =
               IF Switch(index).fn = "unmixed"
               THEN [rd |-> @.rd \cup UnmixedReads(cur[w]),
                     wr |-> @.wr \cup UnmixedWrites(w, cur[w])]
               ELSE [rd |-> @.rd \cup KernelReads(cur[w]),
                     wr |-> @.wr \cup KernelWrites(w, cur[w])]]
  /\ UNCHANGED <<inputs, pc, taken, out, ret, cited, nn>>

\* the loop is done: the threads free their buffers and join, the kernel
\* and tsa_spectral_index return
Return ==
  /\ pc = "parallel"
  /\ taken = Cells
  /\ \A w \in Workers : cur[w] = -1
  /\ priv' = [w \in Workers |-> NoBuffers]
  /\ acc' = NoAccess
  /\ pc' = "returned"
  /\ ret' = "SUCCESS"
  /\ UNCHANGED <<inputs, ts, taken, cur, out, cited, nn>>

Next ==
  \/ CallDefault
  \/ CallMismatch
  \/ CallKernel
  \/ \E w \in Workers : Take(w)
  \/ \E w \in Workers : Process(w)
  \/ Return

Spec == Init /\ [][Next]_vars


(***************************************************************************)
(* The constrained inversion of one spectrum, step by step (the else       *)
(* branch of `if (!sma->pos)`).  The numbers the LU inversion returns (s)  *)
(* and the gradient (w) are not computed: each is any value of a small     *)
(* set, so that every outcome of the floating-point computation, rounding  *)
(* noise of either sign included, is a behaviour.  The step and the        *)
(* interpolation are computed, exactly.  tol is FLT_MIN, far below the     *)
(* magnitude of every non-zero value of the model: x > tol is x > 0,       *)
(* x <= tol is x <= 0 and |x| < tol is x = 0.                              *)
(***************************************************************************)
\* what an inversion of the passive subset may give for one component
SVals == {RNorm(-1, 4), RZero, RNorm(1, 2), ROne}

\* what the gradient of one active component may be
WVals == {RNorm(-1, 4), RZero, RNorm(1, 4)}

Indices == 0 .. M - 1

GtTol(x) == RLt(RZero, x)

LeTol(x) == RLe(x, RZero)

AbsLtTol(x) == x = RZero

INT_MAX == 2147483647

\* gsl_vector_min and gsl_vector_max over the indices I (not empty): NaN
\* if any element is
VecMin(v, I) ==
  IF \E i \in I : RIsNaN(v[i]) THEN RNaN
  ELSE v[CHOOSE i \in I : \A j \in I : RLe(v[i], v[j])]

VecMax(v, I) ==
  IF \E i \in I : RIsNaN(v[i]) THEN RNaN
  ELSE v[CHOOSE i \in I : \A j \in I : RLe(v[j], v[i])]

\* gsl_vector_max_index: the lowest index of a maximum
VecMaxIndex(v) ==
  Min({i \in Indices : \A j \in Indices : RLe(v[j], v[i])})

\* s from the solution s_ of the passive subset: zero on the active set
Scatter(s_, P) == [i \in Indices |-> IF i \in P THEN s_[i] ELSE RZero]

\* the main loop goes on
MainCond(n) == n.R # {} /\ GtTol(VecMax(n.w, Indices))

\* the inner loop goes on
InnerCond(n) == LeTol(n.s_min) /\ n.it < itmax

\* alpha (C2): the minimum of d/(d-s) over the passive components with s <= tol
Alpha(n) ==
  VecMin([i \in Indices |->
            IF LeTol(n.s[i]) /\ i \in n.P
            THEN RDiv(n.d[i], RSub(n.d[i], n.s[i]))
            ELSE RInt(INT_MAX)], Indices)

\* d + alpha (s - d) (C3)
Interpolate(n) ==
  [i \in Indices |-> RAdd(n.d[i], RMul(Alpha(n), RSub(n.s[i], n.d[i])))]

\* the passive set after the removal of the components that reached zero (C4)
Demote(P, d) == {i \in P : ~AbsLtTol(d[i])}

\* it = 0, initialization (A1-A3) and the first gradient w = t(Z)x (A4)
SolveStart ==
  /\ pc = "solve"
  /\ nn.pcs = "start"
  /\ \E ztx \in [Indices -> WVals] :
       nn' = [pcs |-> "main", it |-> 0, P |-> {}, R |-> Indices,
              d |-> [i \in Indices |-> RZero], s |-> [i \in Indices |-> RZero],
              w |-> ztx, s_min |-> Uninit]
  /\ UNCHANGED <<inputs, acc, ts, pc, taken, cur, priv, out, ret, cited>>

\* one pass of the main loop up to the inner loop (B1-B4): the index of
\* the maximum gradient becomes passive, the passive subset is inverted
MainStep ==
  /\ pc = "solve"
  /\ nn.pcs = "main"
  /\ MainCond(nn)
  /\ LET m == VecMaxIndex(nn.w)
         P == nn.P \cup {m}
     IN \E s_ \in [P -> SVals] :
          nn' = [nn EXCEPT !.pcs = "inner", !.P = P, !.R = nn.R \ {m},
                           !.s = Scatter(s_, P), !.s_min = VecMin(s_, P)]
  /\ UNCHANGED <<inputs, acc, ts, pc, taken, cur, priv, out, ret, cited>>

\* a pass of the inner loop as it would be without the count of the passes
InnerStepNoCount ==
  /\ pc = "solve"
  /\ nn.pcs = "inner"
  /\ InnerCond(nn)
  /\ LET d == Interpolate(nn)
         P == Demote(nn.P, d)
     IN \E s_ \in [P -> SVals], garbage \in (IF P = {} THEN SVals ELSE {RZero}) :
          nn' = [nn EXCEPT !.d = d, !.P = P,
                           !.R = nn.R \cup (nn.P \ P), !.s = Scatter(s_, P),
                           !.s_min = IF P = {} THEN garbage ELSE VecMin(s_, P)]
  /\ UNCHANGED <<inputs, acc, ts, pc, taken, cur, priv, out, ret, cited>>

\* one pass of the inner loop (C1-C6).  With an empty passive set s_min is
\* read from a vector of no elements: any value.
InnerStep ==
  /\ pc = "solve"
  /\ nn.pcs = "inner"
  /\ InnerCond(nn)
  /\ LET d == Interpolate(nn)
         P == Demote(nn.P, d)
     IN \E s_ \in [P -> SVals], garbage \in (IF P = {} THEN SVals ELSE {RZero}) :
          nn' = [nn EXCEPT !.it = nn.it + 1, !.d = d, !.P = P,
                           !.R = nn.R \cup (nn.P \ P), !.s = Scatter(s_, P),
                           !.s_min = IF P = {} THEN garbage ELSE VecMin(s_, P)]
  /\ UNCHANGED <<inputs, acc, ts, pc, taken, cur, priv, out, ret, cited>>

\* the end of a pass of the main loop as it would be if the gradient of the
\* passive components were kept
CommitKeepGradient ==
  /\ pc = "solve"
  /\ nn.pcs = "inner"
  /\ ~InnerCond(nn)
  /\ \E g \in [Indices -> WVals] :
       nn' = [nn EXCEPT !.pcs = "main", !.d = nn.s, !.w = g]
  /\ UNCHANGED <<inputs, acc, ts, pc, taken, cur, priv, out, ret, cited>>

\* the end of a pass of the main loop (B5-B6): d becomes s, the gradient
\* is recomputed on the active set and set to -1 on the passive set
Commit ==
  /\ pc = "solve"
  /\ nn.pcs = "inner"
  /\ ~InnerCond(nn)
  /\ \E g \in [nn.R -> WVals] :
       nn' = [nn EXCEPT !.pcs = "main", !.d = nn.s,
                        !.w = [i \in Indices |-> IF i \in nn.R THEN g[i] ELSE RInt(-1)]]
  /\ UNCHANGED <<inputs, acc, ts, pc, taken, cur, priv, out, ret, cited>>

\* the main loop ends: d holds the fractions
SolveDone ==
  /\ pc = "solve"
  /\ nn.pcs = "main"
  /\ ~MainCond(nn)
  /\ nn' = [nn EXCEPT !.pcs = "done"]
  /\ UNCHANGED <<inputs, acc, ts, pc, taken, cur, priv, out, ret, cited>>

\* an inversion: positivity requested, with and without sum-to-one
InitSolve ==
  /\ \E c \in {b \in CallsB : /\ b.mask_ = NoMask /\ b.oracle = 0
                              /\ b.build = "wrap" /\ b.fill = 0
                              /\ b.sma \in {[SmaDefault EXCEPT !.sto = v] : v \in BOOLEAN}} :
       /\ index = c.index
       /\ mask_ = c.mask_
       /\ ard = ArdOf(c.scene, c.invalid)
       /\ sma = c.sma
       /\ endmember = c.endmember
       /\ oracle = c.oracle
       /\ build = c.build
       /\ fill = c.fill
       /\ ts = ts0
  /\ pc = "solve"
  /\ taken = {}
  /\ cur = [w \in Workers |-> -1]
  /\ priv = [w \in Workers |-> Alloc]
  /\ out = <<>>
  /\ ret = "none"
  /\ cited = "SMA"
  /\ nn = [pcs |-> "start"]
  /\ acc = NoAccess

NextSolve ==
  \/ SolveStart
  \/ MainStep
  \/ InnerStep
  \/ Commit
  \/ SolveDone

SpecSolve == InitSolve /\ [][NextSolve]_vars

\* the thread that runs the inversion keeps running, a step that can be
\* taken is taken: weak fairness of NextSolve, with ENABLED <<NextSolve>>_vars
\* written out (a step is possible at every position but the end)
Running == []<>(nn.pcs = "done") \/ []<><<NextSolve>>_vars

SpecSolveFair == SpecSolve /\ Running


(***************************************************************************)
(* Properties.  Each is stated on the arrays as the call leaves them.      *)
(***************************************************************************)
\* the call ran a kernel to its end
KernelReturned == pc = "returned" /\ Switch(index).fn # "default"

Unmixed == Switch(index).fn = "unmixed"

\* (t, p) is evaluated: the cell is not masked and the date is valid
Evaluated(t, p) == ~Masked(p) /\ ard[t].msk[p]

\* n/d lies outside [SHRT_MIN, SHRT_MAX] (d not zero)
OutsideShort(n, d) ==
  LET q == TruncDiv(n, d)
  IN \/ q > SHRT_MAX
     \/ q < SHRT_MIN
     \/ (q = SHRT_MAX /\ Abs(n) % Abs(d) # 0)
     \/ (q = SHRT_MIN /\ Abs(n) % Abs(d) # 0)

\* C1: after the call of a kernel, every date of a cell the mask excludes
\* holds nodata in the output, and in the residual too when index_unmixed
\* is asked for the residual.
C1_MaskedIsNodata ==
  KernelReturned =>
    \A p \in Cells : Masked(p) =>
      \A t \in Dates : /\ ts.tss_[t][p] = Nodata
                        /\ (Unmixed /\ sma.orms) => ts.rms_[t][p] = Nodata

\* the normalized difference of every evaluated (t, p): nodata when the sum
\* is zero or the quotient is outside [-1, 1], else within `slack` of the
\* quotient times 10000 truncated toward zero
NdAgrees(slack) ==
  (pc = "returned" /\ Switch(index).fn = "differenced") =>
    \A t \in Dates, p \in Cells : Evaluated(t, p) =>
      LET b1 == Dat(t, Switch(index).b[1], p)
          b2 == Dat(t, Switch(index).b[2], p)
      IN IF b1 + b2 # 0 /\ Abs(b1 - b2) <= Abs(b1 + b2)
         THEN Abs(ts.tss_[t][p] - TruncDiv((b1 - b2) * 10000, b1 + b2)) <= 1
              /\ (slack = 0 => ts.tss_[t][p] = TruncDiv((b1 - b2) * 10000, b1 + b2))
         ELSE ts.tss_[t][p] = Nodata

\* C2 (as amended): index_differenced stores nodata when b1+b2 = 0 or
\* (b1-b2)/(b1+b2) is outside [-1, 1]; otherwise it stores a value that is
\* within 1 of (b1-b2)/(b1+b2)*10000 truncated toward zero.
C2_WithinOne == NdAgrees(1)

\* C2 (as stated): ... otherwise it stores exactly (b1-b2)/(b1+b2)*10000
\* truncated toward zero.
C2_Exact == NdAgrees(0)

\* C2: a quotient the float arithmetic rounds below the exact one
C2_Rounded ==
  /\ pc = "returned"
  /\ index = "NDV"
  /\ \E t \in Dates, p \in Cells :
       /\ Evaluated(t, p)
       /\ Dat(t, sen.nir, p) = 89
       /\ Dat(t, sen.red, p) = 11
       /\ ts.tss_[t][p] = 7799

\* C3: a request the switch does not know is reported, the call returns
\* SUCCESS, and every entry of the output array is nodata on return.
C3_UnknownIsNodata ==
  (pc = "returned" /\ Switch(index).fn = "default") =>
    /\ out = <<"unknown INDEX">>
    /\ ret = "SUCCESS"
    /\ \A t \in Dates, p \in Cells : ts.tss_[t][p] = Nodata

\* the ratio minus one of every evaluated (t, p), with q the exact
\* (b1/b2 - 1)*1000 truncated toward zero: nodata when b2 = 0 or the exact
\* value is `margin` or more outside the range; q, or a value within
\* `slack` of q, when the exact value is `margin` or more inside the range
RmAgrees(margin, slack) ==
  (pc = "returned" /\ Switch(index).fn = "ratio_minus1") =>
    \A t \in Dates, p \in Cells : Evaluated(t, p) =>
      LET b1 == Dat(t, Switch(index).b[1], p)
          b2 == Dat(t, Switch(index).b[2], p)
          q  == TruncDiv((b1 - b2) * 1000, b2)
      IN /\ b2 = 0 => ts.tss_[t][p] = Nodata
         /\ (b2 # 0 /\ IF margin = 0 THEN OutsideShort((b1 - b2) * 1000, b2)
                       ELSE (q > SHRT_MAX + margin \/ q < SHRT_MIN - margin))
              => ts.tss_[t][p] = Nodata
         /\ (b2 # 0 /\ IF margin = 0 THEN ~OutsideShort((b1 - b2) * 1000, b2)
                       ELSE (q < SHRT_MAX - margin /\ q > SHRT_MIN + margin))
              => Abs(ts.tss_[t][p] - q) <= slack

\* C5 (as amended): index_ratio_minus1 stores nodata when b2 = 0 and when
\* (b1/b2 - 1)*1000 is outside the 16-bit range by 1 or more; when that
\* value is inside the range by 1 or more it stores a value within 1 of
\* (b1/b2 - 1)*1000 truncated toward zero.
C5_WithinOne == RmAgrees(1, 1)

\* C5 (as stated): nodata exactly when b2 = 0 or (b1/b2 - 1)*1000 is
\* outside the 16-bit range, otherwise exactly that value truncated toward
\* zero.
C5_Exact == RmAgrees(0, 0)

\* C5: a ratio the float arithmetic rounds below the exact one
C5_Rounded ==
  /\ pc = "returned"
  /\ index = "CRE"
  /\ \E t \in Dates, p \in Cells :
       /\ Evaluated(t, p)
       /\ Dat(t, sen.rededge3, p) = 13
       /\ Dat(t, sen.rededge1, p) = 10
       /\ ts.tss_[t][p] = 299

\* C9: index_resistance stores nodata for every evaluated (t, p) with a
\* non-zero denominator whose scaled value
\* f1*(nir-red)/(nir+f2*red-f3*blue+f4*10000)*10000 is outside the 16-bit
\* range.  The factors are tenths: numerator and denominator times ten.
C9_OverflowIsNodata ==
  (pc = "returned" /\ Switch(index).fn = "resistance") =>
    \A t \in Dates, p \in Cells : Evaluated(t, p) =>
      LET k   == Switch(index)
          n   == Dat(t, k.b[1], p)
          r   == Dat(t, k.b[2], p)
          b   == Dat(t, k.b[3], p)
          red == IF k.rbc THEN r - (b - r) ELSE r
          num == k.f[1][1] * (n - red) * 10000
          den == 10 * n + k.f[2][1] * red - k.f[3][1] * b + k.f[4][1] * 10000
      IN (den # 0 /\ OutsideShort(num, den)) => ts.tss_[t][p] = Nodata

\* the endmember table and the ARD differ in their number of bands
Mismatch == Unmixed /\ endmember.nb # NB

\* C4: when the band counts differ, index_unmixed ends the process before
\* any work on a cell: no thread is started, no buffer allocated, no cell
\* handed out, and the output and residual arrays are as the caller left
\* them; the call never returns.
C4_AbortsBeforeWork ==
  Mismatch =>
    /\ pc \in {"call", "exited"}
    /\ taken = {}
    /\ \A w \in Workers : cur[w] = -1 /\ priv[w] = NoBuffers
    /\ ts = ts0
    /\ ret = "none"

\* C4: the process was ended on a band count mismatch
C4_Exited ==
  /\ Mismatch
  /\ pc = "exited"
  /\ out = <<"number of bands in endmember file and ARD is different.">>

\* the loop over the cells run by one thread in the order of the cells
RECURSIVE SeqRun(_, _, _)
SeqRun(p, arr, buf) ==
  IF p = NC THEN arr
  ELSE IF Unmixed
       THEN SeqRun(p + 1, UnmixedCell(p, arr, buf), UnmixedBuffers(p, buf))
       ELSE SeqRun(p + 1, KernelCell(Switch(index), p, arr), buf)

\* C6: the arrays a kernel or index_unmixed returns are those of the
\* sequential loop on the same inputs, whichever thread ran which cell and
\* in whichever order: two runs on the same inputs return the same arrays.
C6_Deterministic ==
  KernelReturned => ts = SeqRun(0, ts0, IF Unmixed THEN Alloc ELSE NoBuffers)

\* C6: index_unmixed returned on a scene with different spectra, every
\* cell inverted
C6_UnmixedReturned ==
  /\ KernelReturned
  /\ Unmixed
  /\ \A p \in Cells : ~Masked(p) /\ ValidDates(p) # {}
  /\ \E p, q \in Cells, t \in Dates :
       /\ Evaluated(t, p)
       /\ Evaluated(t, q)
       /\ ts.tss_[t][p] # ts.tss_[t][q]

\* C7: when the main loop of the constrained inversion ends, no fraction
\* is below -tol, whether or not the inner loop used up its itmax passes.
C7_NonNegative ==
  nn.pcs = "done" => \A i \in Indices : ~RLt(nn.d[i], RZero)

\* what is stored for an evaluated (t, p)
StoredValue(t, p) ==
  IF Unmixed THEN TssValue(Solve(t, p)) ELSE KernelValue(Switch(index), t, p)

\* C8: after the call of a kernel, an invalid date of a cell that is not
\* masked holds nodata in the output (and in the residual when
\* index_unmixed is asked for it), and the valid dates of that cell hold
\* their evaluated values.
C8_InvalidIsNodata ==
  KernelReturned =>
    \A p \in Cells : ~Masked(p) =>
      \A t \in Dates :
        IF ard[t].msk[p]
        THEN ts.tss_[t][p] = StoredValue(t, p)
        ELSE /\ ts.tss_[t][p] = Nodata
             /\ (Unmixed /\ sma.orms) => ts.rms_[t][p] = Nodata

\* C8: a cell with an invalid date, written with nodata, and a valid date
\* that was inverted, residual included
C8_InvalidDate ==
  /\ KernelReturned
  /\ Unmixed
  /\ sma.orms
  /\ fill = 0
  /\ \E p \in Cells, t, u \in Dates :
       /\ ~Masked(p)
       /\ ~ard[t].msk[p]
       /\ ard[u].msk[p]
       /\ ts.tss_[t][p] = Nodata
       /\ ts.rms_[t][p] = Nodata
       /\ ts.tss_[u][p] \notin {Nodata, fill}

\* C10: with shade normalization, the output of an evaluated (t, p) is 0
\* when the last endmember (shade) is selected, and otherwise the
\* quantization of d_i * 1/(1 - d_shade), d the fractions of the inversion.
C10_ShadeNormalized ==
  (pc = "returned" /\ Unmixed /\ sma.shn) =>
    \A t \in Dates, p \in Cells : Evaluated(t, p) =>
      LET d == Solve(t, p)
      IN ts.tss_[t][p] =
           IF sma.emb = M THEN 0
           ELSE QuantizeD(RMul(d[sma.emb - 1], RDiv(ROne, RSub(ROne, d[M - 1]))),
                          build)

\* C10: a fraction of 1/2 beside a shade fraction of 1/2 is stored as 10000
C10_Rescaled ==
  /\ pc = "returned"
  /\ Unmixed
  /\ sma.shn
  /\ sma.emb = 1
  /\ \E t \in Dates, p \in Cells :
       /\ Evaluated(t, p)
       /\ Solve(t, p) = [j \in 0 .. M - 1 |-> RNorm(1, 2)]
       /\ ts.tss_[t][p] = 10000

\* ten thousand times the weighted sum of the claim for the band vector v:
\* one component, or brightness - greenness - wetness
TcSum(type, v) ==
  LET coef(k) == IF type = TCD THEN tc[1][k] - tc[2][k] - tc[3][k]
                 ELSE tc[type + 1][k]
  IN coef(1) * v[1] + coef(2) * v[2] + coef(3) * v[3]
     + coef(4) * v[4] + coef(5) * v[5] + coef(6) * v[6]

\* the tasseled cap output of every evaluated (t, p) is within `slack` of
\* the weighted sum truncated toward zero
TcAgrees(slack) ==
  (pc = "returned" /\ Switch(index).fn = "tasseled") =>
    \A t \in Dates, p \in Cells : Evaluated(t, p) =>
      LET k == Switch(index)
          v == [i \in 1 .. Len(k.b) |-> Dat(t, k.b[i], p)]
      IN Abs(ts.tss_[t][p] - TruncDiv(TcSum(k.type, v), 10000)) <= slack

\* C11: index_tasseled stores, for every evaluated (t, p), the weighted sum
\* of the six bands with the coefficients of the table (for the disturbance:
\* brightness - greenness - wetness), truncated toward zero once; the
\* comparison allows a difference of 1 for the single-precision arithmetic.
C11_TasseledCombination == TcAgrees(1)

\* C12: the constrained inversion leaves its main loop after finitely many
\* steps, whatever the candidate solutions and the gradients are; the
\* counter of the inner passes, set to 0 once per inversion, never exceeds
\* itmax = 30*M.
C12_Terminates ==
  /\ [](nn.pcs \in {"main", "inner", "done"} => nn.it <= itmax)
  /\ <>(nn.pcs = "done")

\* C12: the main loop has ended after the inner loop used all its passes
C12_DoneOnBudget == nn.pcs = "done" /\ nn.it = itmax

\* C13: once the inner loop has used its itmax passes, the main loop makes
\* no further pass: from the head of the main loop with it = itmax the
\* inversion does not move another index to the passive set.
C13_StopsOnBudget ==
  [][(nn.pcs = "main" /\ nn.it = itmax) => nn'.pcs # "inner"]_vars

\* C18: during the constrained inversion the passive set P and the active
\* set R are complementary, and the index of the maximum gradient that a
\* pass of the main loop moves is in the active set, so that the passive
\* set grows by exactly one member.
C18_Complementary ==
  nn.pcs \in {"main", "inner", "done"} =>
    /\ nn.P \cap nn.R = {}
    /\ nn.P \cup nn.R = Indices
    /\ (nn.pcs = "main" /\ MainCond(nn)) =>
         /\ VecMaxIndex(nn.w) \in nn.R
         /\ Cardinality(nn.P \cup {VecMaxIndex(nn.w)}) = Cardinality(nn.P) + 1

\* C18: a pass of the main loop is about to move an index while another
\* index is passive and the inner loop has demoted one before
C18_MovesActive ==
  /\ nn.pcs = "main"
  /\ MainCond(nn)
  /\ nn.P # {}
  /\ nn.it > 0

\* the squared reconstruction errors of the spectral bands, summed
RECURSIVE BandRsum(_, _, _)
BandRsum(x, d, i) ==
  IF i = endmember.nb THEN RZero
  ELSE LET res == RSub(x[i], Dsum(d, i, 0))
       IN RAdd(RMul(res, res), BandRsum(x, d, i + 1))

\* C16: the residual index_unmixed stores for an evaluated (t, p) is the
\* square root of the mean, over the spectral bands of the endmember table,
\* of the squared reconstruction errors (times 10000, truncated), with and
\* without sum-to-one.
C16_ResidualOverBands ==
  (pc = "returned" /\ Unmixed /\ sma.orms) =>
    \A t \in Dates, p \in Cells : Evaluated(t, p) =>
      ts.rms_[t][p] =
        QuantizeSqrt(RDiv(BandRsum(CopySpectrum(t, p, Alloc.x), Solve(t, p), 0),
                          RInt(endmember.nb)), build)

\* C17 (its nodata conditions): index_msrre stores nodata for every
\* evaluated (t, p) with b2 = 0 or with b1/b2 + 1 <= 0, that is with
\* b1 = -b2 or with b1/b2 < -1, where the square root is undefined.
C17_UndefinedIsNodata ==
  (pc = "returned" /\ Switch(index).fn = "msrre") =>
    \A t \in Dates, p \in Cells : Evaluated(t, p) =>
      LET b1 == Dat(t, Switch(index).b[1], p)
          b2 == Dat(t, Switch(index).b[2], p)
      IN (b2 = 0 \/ (b1 + b2) * Sgn(b2) <= 0) => ts.tss_[t][p] = Nodata

\* what the threads share and only read: the ARD, the mask, the endmember
\* table, the parameters, Z and t(Z)Z
SharedInputs ==
  {<<"ard", p>> : p \in Cells} \cup {<<"mask_", p>> : p \in Cells}
  \cup {<<"endmember">>, <<"sma">>, <<"Z">>, <<"ZtZ">>}

\* C15: in the parallel region no thread writes the ARD, the mask, Z or
\* t(Z)Z, and no location a thread writes is read or written by another
\* thread: the output and the residual of a cell are written by the one
\* thread that ran the cell.
C15_RaceFree ==
  \A w \in Workers :
    /\ acc[w].wr \cap SharedInputs = {}
    /\ \A v \in Workers \ {w} : acc[w].wr \cap (acc[v].rd \cup acc[v].wr) = {}

\* C15: two threads have each run a cell of an unconstrained unmixing, each
\* has read t(Z)Z and factorized its copy
C15_TwoThreads ==
  /\ pc = "parallel"
  /\ Unmixed
  /\ ~sma.pos
  /\ \A w \in Workers : <<"ZtZ">> \in acc[w].rd /\ LUMatrix(w) \in acc[w].wr

\* cell p has been run by a thread
Ran(p) == p \in taken /\ \A w \in Workers : cur[w] # p

\* what the call is given at (t, p): the band values and the validity flag
\* of (t, p) and the mask entry of p
LocalInputs(t, p) ==
  [dat |-> [b \in 0 .. NB - 1 |-> Dat(t, b, p)],
   valid |-> ard[t].msk[p],
   masked |-> Masked(p)]

\* C14: from the moment a thread has run cell p, during the region and
\* after the call, the output at every (t, p) is nodata for a masked cell
\* or an invalid date and otherwise the value of the kernel on the bands of
\* (t, p), and the residual index_unmixed writes is nodata for an invalid
\* date and otherwise the residual of the spectrum of (t, p) in buffers as
\* allocated: whichever thread ran p, whatever it ran before and whatever
\* is run later.  Two (cell, date) with the same band values, validity
\* flag and mask entry hold the same output and residual.
C14_Independent ==
  \A p \in Cells : Ran(p) =>
    \A t \in Dates :
      /\ ts.tss_[t][p] =
           IF Masked(p) \/ ~ard[t].msk[p] THEN Nodata ELSE StoredValue(t, p)
      /\ (Unmixed /\ sma.orms /\ ~Masked(p)) =>
           ts.rms_[t][p] =
             IF ~ard[t].msk[p] THEN Nodata
             ELSE RmsValue(CopySpectrum(t, p, Alloc.x), Solve(t, p))
      /\ \A q \in Cells, u \in Dates :
           (Ran(q) /\ LocalInputs(u, q) = LocalInputs(t, p)) =>
             /\ ts.tss_[u][q] = ts.tss_[t][p]
             /\ ts.rms_[u][q] = ts.rms_[t][p]

\* C14: one thread of index_unmixed has run every cell in succession with
\* its buffers, the other thread none; a date of a cell was invalid and got
\* nodata, and the residuals of two evaluated (cell, date) differ
C14_ReusedBuffers ==
  /\ pc = "parallel"
  /\ Unmixed
  /\ sma.orms
  /\ \A p \in Cells : Ran(p) /\ ~Masked(p) /\ ValidDates(p) # {}
  /\ \E w \in Workers : priv[w] = Alloc
  /\ \E p \in Cells, t \in Dates : ~ard[t].msk[p] /\ ts.rms_[t][p] = Nodata
  /\ \E p, q \in Cells, t, u \in Dates :
       /\ p # q
       /\ Evaluated(t, p)
       /\ Evaluated(u, q)
       /\ ts.rms_[t][p] # ts.rms_[u][q]

=============================================================================
